---------------------------- MODULE Spec2Model ----------------------------
(***************************************************************************)
(* A model of the kinematic character controller prototype:                *)
(*   - the sweep primitive character_sweep          (src/src/move_and_slide.rs) *)
(*   - the slide loop move_and_slide                (src/src/move_and_slide.rs) *)
(*   - the plane-projection solver solve_collision_planes                  *)
(*   - the character state (launch, jump, movement and platform ticks)     *)
(*     of src/examples/3d_simple_character/plugin.rs and src/src/movement.rs *)
(*                                                                         *)
(* Arithmetic.  The program computes in f32.  The model computes in fixed  *)
(* point: a length or a speed of 1.0 is LenUnit units, a time of 1.0 is    *)
(* TimeUnit units, and a product or quotient is rounded to the nearest     *)
(* unit once.  A unit normal is stored times 5, as an integer vector of     *)
(* squared length 25, so that the axis normals and the Pythagorean normals *)
(* (3,4,0)/5 are exact; every operator divides by the stored length.       *)
(***************************************************************************)
EXTENDS Integers, Sequences, FiniteSets, TLC

VARIABLES
    \* --- sweep primitive, applied to one shape-cast outcome
    sw_pc, sw_epsilon, sw_hit, sw_out,
    \* --- solve_collision_planes, applied to one input
    so_pc, so_velocity, so_hits, so_dir, so_out,
    \* --- move_and_slide, one call after another
    ms_pc, ms_config, ms_delta, ms_translation, ms_velocity, ms_vnan, ms_tnan,
    ms_remaining, ms_hits, ms_iter, ms_dir,
    ms_start, ms_sweeps, ms_onhits, ms_touched, ms_firstmiss, ms_anyhit, ms_calls,
    ms_last,
    \* --- ground classification, applied to one contact normal
    wk_pc, wk_normal, wk_use, wk_out,
    \* --- the Character component and the position of its handlers
    ch_pc, ch_velocity, ch_ground, ch_previous_ground, ch_new_ground,
    ch_move_accel, ch_hits, ch_ops, ch_last, ch_sawwall,
    ch_platform, ch_probe, ch_step,
    \* --- the demo recorder: the schedule of the frame, State<RecorderState>,
    \* NextState<RecorderState> and who set it, the snapshots the DemoHandler
    \* holds, and the lengths of the demos save_demo has handed to be written
    rec_pc, rec_frame, rec_state, rec_next, rec_cause, rec_snapshots, rec_saved,
    \* --- one hit handed to the character's on_hit closure: what the closure
    \* is given and what it leaves behind
    st_pc, st_in, st_out

sweepVars == <<sw_pc, sw_epsilon, sw_hit, sw_out>>
solveVars == <<so_pc, so_velocity, so_hits, so_dir, so_out>>
slideVars == <<ms_pc, ms_config, ms_delta, ms_translation, ms_velocity, ms_vnan,
               ms_tnan, ms_remaining, ms_hits, ms_iter, ms_dir,
               ms_start, ms_sweeps, ms_onhits, ms_touched, ms_firstmiss, ms_anyhit,
               ms_calls, ms_last>>
walkVars == <<wk_pc, wk_normal, wk_use, wk_out>>
charVars == <<ch_pc, ch_velocity, ch_ground, ch_previous_ground, ch_new_ground,
              ch_move_accel, ch_hits, ch_ops, ch_last, ch_sawwall,
              ch_platform, ch_probe, ch_step>>
recVars == <<rec_pc, rec_frame, rec_state, rec_next, rec_cause, rec_snapshots, rec_saved>>
stepVars == <<st_pc, st_in, st_out>>
vars == <<sweepVars, solveVars, slideVars, walkVars, charVars, recVars, stepVars>>

-----------------------------------------------------------------------------
(* Units and bounds *)

\* 1.0 of length or speed, in model units
LenUnit == 100
\* 1.0 of time, in model units
TimeUnit == 8

-----------------------------------------------------------------------------
(* Scalars and vectors *)

Max(a, b) == IF a >= b THEN a ELSE b
Min(a, b) == IF a <= b THEN a ELSE b
Abs(a) == IF a >= 0 THEN a ELSE -a

\* a / b rounded to the nearest integer (b > 0), halves away from zero
RDiv(a, b) == IF a >= 0 THEN (2 * a + b) \div (2 * b) ELSE -((2 * (-a) + b) \div (2 * b))

\* the square root rounded down, by bisection (lo^2 <= x < hi^2)
RECURSIVE ISqrtIn(_, _, _)
ISqrtIn(x, lo, hi) ==
    IF hi - lo <= 1 THEN lo
    ELSE LET mid == (lo + hi) \div 2
         IN  IF mid * mid <= x THEN ISqrtIn(x, mid, hi) ELSE ISqrtIn(x, lo, mid)
ISqrt(x) == ISqrtIn(x, 0, 46341)
\* the square root rounded to the nearest integer
RSqrt(x) == LET r == ISqrt(x) IN IF x - r * r > r THEN r + 1 ELSE r

ZERO == <<0, 0, 0>>
Add(a, b) == <<a[1] + b[1], a[2] + b[2], a[3] + b[3]>>
Sub(a, b) == <<a[1] - b[1], a[2] - b[2], a[3] - b[3]>>
Scale(a, k) == <<a[1] * k, a[2] * k, a[3] * k>>
VDiv(a, k) == <<RDiv(a[1], k), RDiv(a[2], k), RDiv(a[3], k)>>
Dot(a, b) == a[1] * b[1] + a[2] * b[2] + a[3] * b[3]
Cross(a, b) == <<a[2] * b[3] - a[3] * b[2], a[3] * b[1] - a[1] * b[3], a[1] * b[2] - a[2] * b[1]>>
LenSq(a) == Dot(a, a)
Length(a) == RSqrt(LenSq(a))

\* Dir3::Y
DirY == <<0, 5, 0>>

-----------------------------------------------------------------------------
(* The sweep primitive *)

NoHit == [hit |-> FALSE]
Hit(d, n) == [hit |-> TRUE, distance |-> d, normal |-> n]

\* character_sweep: the shape cast's outcome `cast` (NoHit, or the hit the
\* physics engine reports) becomes None or (safe_distance, hit).
character_sweep_unclamped(epsilon, cast) ==
    IF ~cast.hit THEN NoHit
    ELSE [hit |-> TRUE, safe |-> cast.distance - epsilon,
          distance |-> cast.distance, normal |-> cast.normal]

character_sweep(epsilon, cast) ==
    IF ~cast.hit THEN NoHit
    ELSE [hit |-> TRUE, safe |-> Max(cast.distance - epsilon, 0),
          distance |-> cast.distance, normal |-> cast.normal]


-----------------------------------------------------------------------------
(* The plane-projection solver *)

\* const SIMILARITY_THRESHOLD: f32 = 0.999, as the fraction 999 / 1000.
\* For directions a and b (of any length), cos(a, b) > 0.999 is
\*   d > 0 /\ d^2 / P > 0.998001   with d = a.b, P = |a|^2 |b|^2,
\* that is, with X = P - d^2:  10^6 X < 1999 P  <=>  P - 500 X > P / 2000.
\* The comparison is arranged so that no product exceeds P.
similar_plane(normal1, normal2) ==
    LET d == Dot(normal1, normal2)
        P == LenSq(normal1) * LenSq(normal2)
        X == P - d * d
    IN  /\ d > 0
        /\ X <= P \div 500
        /\ P - 500 * X > P \div 2000

\* Vec3::reject_from_normalized(self, n) = self - n * self.dot(n) for the unit
\* normal n; with n stored times its length this is self - n (self.n) / (n.n)
reject_from_normalized(v, n) == Sub(v, VDiv(Scale(n, Dot(v, n)), LenSq(n)))

\* f32::EPSILON = 2^-23; v.length_squared() <= f32::EPSILON
F32_EPSILON_INV == 8388608
length_squared_le_epsilon(v) == LenSq(v) <= (LenUnit * LenUnit) \div F32_EPSILON_INV

\* a solver value: a vector, or NaN in every component
Vec(v) == [nan |-> FALSE, v |-> v]
NaNVec == [nan |-> TRUE, v |-> ZERO]

\* Vec3::normalize_or_zero followed by Vec3::project_onto: the projection of
\* vel on the line of c.  For c = 0 the normalisation gives ZERO and
\* project_onto computes ZERO * 0 * (1/0) = NaN.
project_onto_crease(vel, c) ==
    IF LenSq(c) = 0 THEN NaNVec
    ELSE [nan |-> FALSE,
          v |-> <<RDiv(c[1] * Dot(vel, c), LenSq(c)),
                  RDiv(c[2] * Dot(vel, c), LenSq(c)),
                  RDiv(c[3] * Dot(vel, c), LenSq(c))>>]

\* (n_k + n_j).normalize_or_zero() * 0.01
NUDGE_DEN == 100
corner_nudge(nk, nj) ==
    LET s == Add(nk, nj)
        len == RSqrt(LenSq(s) * 10000)
    IN  IF LenSq(s) = 0 THEN ZERO
        ELSE <<RDiv(s[1] * LenUnit * 100, NUDGE_DEN * len),
               RDiv(s[2] * LenUnit * 100, NUDGE_DEN * len),
               RDiv(s[3] * LenUnit * 100, NUDGE_DEN * len)>>

\* the candidate second constraints: the wish direction and the hits, without
\* those similar to the most recent normal or to the wish direction
filtered_hits_keep_wish(nk, o, hits) ==
    SelectSeq(<<o>> \o hits, LAMBDA n : ~similar_plane(nk, n))

filtered_hits(nk, o, hits) ==
    SelectSeq(<<o>> \o hits, LAMBDA n : ~similar_plane(nk, n) /\ ~similar_plane(o, n))

\* one step of the try_fold closure: [stop, val]
fold_step_stops_when_realigned(acc, nj, nk, all_hits) ==
    IF acc.nan
    THEN [stop |-> FALSE, val |-> NaNVec]
    ELSE
    LET vel == reject_from_normalized(acc.v, nj)
    IN  IF similar_plane(vel, nk)
        THEN [stop |-> TRUE, val |-> Vec(vel)]
        ELSE
        LET crease == Cross(nk, nj)
            vel_proj == project_onto_crease(vel, crease)
            is_corner == /\ ~vel_proj.nan
                         /\ \E i \in 1..Len(all_hits) :
                               /\ ~similar_plane(nk, all_hits[i])
                               /\ ~similar_plane(nj, all_hits[i])
                               /\ similar_plane(vel_proj.v, all_hits[i])
        IN  IF is_corner
            THEN [stop |-> TRUE, val |-> Vec(Add(vel_proj.v, corner_nudge(nk, nj)))]
            ELSE IF ~vel_proj.nan /\ length_squared_le_epsilon(vel_proj.v)
            THEN [stop |-> TRUE, val |-> vel_proj]
            ELSE [stop |-> FALSE, val |-> vel_proj]

fold_step_corner_keeps_folding(acc, nj, nk, all_hits) ==
    IF acc.nan
    THEN [stop |-> FALSE, val |-> NaNVec]
    ELSE
    LET vel == reject_from_normalized(acc.v, nj)
    IN  IF similar_plane(vel, nk)
        THEN IF length_squared_le_epsilon(vel)
             THEN [stop |-> TRUE, val |-> Vec(vel)]
             ELSE [stop |-> FALSE, val |-> Vec(vel)]
        ELSE
        LET crease == Cross(nk, nj)
            vel_proj == project_onto_crease(vel, crease)
            is_corner == /\ ~vel_proj.nan
                         /\ \E i \in 1..Len(all_hits) :
                               /\ ~similar_plane(nk, all_hits[i])
                               /\ ~similar_plane(nj, all_hits[i])
                               /\ similar_plane(vel_proj.v, all_hits[i])
        IN  IF is_corner
            THEN [stop |-> FALSE, val |-> Vec(Add(vel_proj.v, corner_nudge(nk, nj)))]
            ELSE IF ~vel_proj.nan /\ length_squared_le_epsilon(vel_proj.v)
            THEN [stop |-> TRUE, val |-> vel_proj]
            ELSE [stop |-> FALSE, val |-> vel_proj]

fold_step(acc, nj, nk, all_hits) ==
    IF acc.nan
    THEN \* every comparison with NaN is false: Ok(NaN)
         [stop |-> FALSE, val |-> NaNVec]
    ELSE
    LET vel == reject_from_normalized(acc.v, nj)
    IN  IF similar_plane(vel, nk)
        THEN IF length_squared_le_epsilon(vel)
             THEN [stop |-> TRUE, val |-> Vec(vel)]
             ELSE [stop |-> FALSE, val |-> Vec(vel)]
        ELSE
        LET crease == Cross(nk, nj)
            vel_proj == project_onto_crease(vel, crease)
            is_corner == /\ ~vel_proj.nan
                         /\ \E i \in 1..Len(all_hits) :
                               /\ ~similar_plane(nk, all_hits[i])
                               /\ ~similar_plane(nj, all_hits[i])
                               /\ similar_plane(vel_proj.v, all_hits[i])
        IN  IF is_corner
            THEN [stop |-> TRUE, val |-> Vec(Add(vel_proj.v, corner_nudge(nk, nj)))]
            ELSE IF ~vel_proj.nan /\ length_squared_le_epsilon(vel_proj.v)
            THEN [stop |-> TRUE, val |-> vel_proj]
            ELSE [stop |-> FALSE, val |-> vel_proj]

\* the results of the closure for the candidates the fold visits, in order
RECURSIVE fold_path(_, _, _, _, _)
fold_path(acc, cand, i, nk, all_hits) ==
    IF i > Len(cand) THEN <<>>
    ELSE LET r == fold_step(acc, cand[i], nk, all_hits)
         IN  IF r.stop THEN <<r>>
             ELSE <<r>> \o fold_path(r.val, cand, i + 1, nk, all_hits)

RECURSIVE try_fold(_, _, _, _, _)
try_fold(acc, cand, i, nk, all_hits) ==
    IF i > Len(cand) THEN acc
    ELSE LET r == fold_step(acc, cand[i], nk, all_hits)
         IN  IF r.stop THEN r.val ELSE try_fold(r.val, cand, i + 1, nk, all_hits)

solve_collision_planes_no_fold(velocity, hits, o) ==
    IF LenSq(velocity) <= 0 \/ LenSq(o) <= 0 THEN Vec(ZERO)
    ELSE IF hits = <<>> THEN Vec(velocity)
    ELSE IF Dot(velocity, hits[Len(hits)]) >= 0 THEN Vec(velocity)
    ELSE Vec(reject_from_normalized(velocity, hits[Len(hits)]))

solve_collision_planes_oldest_first(velocity, hits, o) ==
    IF LenSq(velocity) <= 0 \/ LenSq(o) <= 0 THEN Vec(ZERO)
    ELSE IF hits = <<>> THEN Vec(velocity)
    ELSE LET first_hit_normal == hits[1]
         IN  IF Dot(velocity, first_hit_normal) >= 0 THEN Vec(velocity)
             ELSE try_fold(Vec(reject_from_normalized(velocity, first_hit_normal)),
                           filtered_hits(first_hit_normal, o, hits), 1,
                           first_hit_normal, <<o>> \o hits)

solve_collision_planes(velocity, hits, o) ==
    IF LenSq(velocity) <= 0 \/ LenSq(o) <= 0 THEN Vec(ZERO)
    ELSE IF hits = <<>> THEN Vec(velocity)
    ELSE LET first_hit_normal == hits[Len(hits)]
         IN  IF Dot(velocity, first_hit_normal) >= 0 THEN Vec(velocity)
             ELSE try_fold(Vec(reject_from_normalized(velocity, first_hit_normal)),
                           filtered_hits(first_hit_normal, o, hits), 1,
                           first_hit_normal, <<o>> \o hits)

-----------------------------------------------------------------------------
(* Specification SpecSweep: character_sweep applied to every shape-cast     *)
(* outcome within the bounds                                               *)

MaxEpsilon == 3
MaxHitDistance == 7

SwNormals == {<<0, 5, 0>>, <<-5, 0, 0>>}
SwCasts == {NoHit} \cup {Hit(d, n) : d \in 0..MaxHitDistance, n \in SwNormals}

SweepIdle == sw_pc = "idle" /\ sw_epsilon = 0 /\ sw_hit = NoHit /\ sw_out = NoHit
SweepStart ==
    /\ sw_pc = "cast"
    /\ sw_epsilon \in 0..MaxEpsilon
    /\ sw_hit \in SwCasts
    /\ sw_out = NoHit

SweepApply ==
    /\ sw_pc = "cast"
    /\ sw_out' = character_sweep(sw_epsilon, sw_hit)
    /\ sw_pc' = "done"
    /\ UNCHANGED <<sw_epsilon, sw_hit, solveVars, slideVars, walkVars, charVars, recVars, stepVars>>

-----------------------------------------------------------------------------
(* Specification SpecSolve: solve_collision_planes applied to every input   *)
(* within the bounds                                                       *)

MaxHits == 3

SoNormals == {<<5, 0, 0>>, <<-5, 0, 0>>, <<0, 5, 0>>,
              <<0, 0, 5>>, <<0, 0, -5>>, <<-3, 4, 0>>, <<-4, 0, -3>>}
SoVelocities == {<<100, 0, 100>>, <<100, 0, 0>>, <<0, 0, 100>>, <<100, -100, 0>>,
                 <<0, -100, 0>>, <<75, -50, 25>>, <<50, 0, 100>>, <<-100, 0, 0>>,
                 <<0, 0, 0>>}
SoDirs == {<<1, 0, 1>>, <<1, 0, 0>>, <<0, -1, 0>>, <<1, -1, 0>>}

RECURSIVE SeqsUpTo(_, _)
SeqsUpTo(S, n) ==
    IF n = 0 THEN {<<>>}
    ELSE LET shorter == SeqsUpTo(S, n - 1)
         IN  shorter \cup {Append(h, x) : h \in shorter, x \in S}

\* hit lists that include a wall leaning a little over 2 degrees off the
\* vertical, (-25, 1, 0) / |(-25, 1, 0)|
TiltedNormals == {<<0, 5, 0>>, <<-25, 1, 0>>, <<-3, 4, 0>>, <<-5, 0, 0>>, <<0, 0, -5>>}
SolveStartTilted ==
    /\ so_pc = "input"
    /\ so_velocity \in SoVelocities
    /\ so_hits \in SeqsUpTo(TiltedNormals, MaxHits)
    /\ so_dir \in SoDirs
    /\ so_out = Vec(ZERO)

SolveIdle ==
    /\ so_pc = "idle" /\ so_velocity = ZERO /\ so_hits = <<>>
    /\ so_dir = ZERO /\ so_out = Vec(ZERO)
SolveStart ==
    /\ so_pc = "input"
    /\ so_velocity \in SoVelocities
    /\ so_hits \in SeqsUpTo(SoNormals, MaxHits)
    /\ so_dir \in SoDirs
    /\ so_out = Vec(ZERO)

SolveApply ==
    /\ so_pc = "input"
    /\ so_out' = solve_collision_planes(so_velocity, so_hits, so_dir)
    /\ so_pc' = "done"
    /\ UNCHANGED <<so_velocity, so_hits, so_dir, sweepVars, slideVars, walkVars, charVars, recVars, stepVars>>

-----------------------------------------------------------------------------
(* Specification SpecSlide: move_and_slide, called up to MaxCalls times in  *)
(* a row on the same agent, against every world the bounds allow           *)

\* MoveAndSlideConfig::default().max_iterations
DEFAULT_MAX_ITERATIONS == 4
\* skin_width and epsilon of the configs tried, in length units
\* (the default skin_width 0.01 is 1 unit; the default epsilon rounds to 0)
MaxSkinWidth == 1
MaxSlideEpsilon == 0
MaxCalls == 2

MsConfigs == [max_iterations : {2, DEFAULT_MAX_ITERATIONS},
              skin_width : 0..MaxSkinWidth,
              epsilon : 0..MaxSlideEpsilon]
MsVelocities == {<<0, 0, 0>>, <<100, 0, 0>>, <<60, 0, 80>>, <<0, -100, 0>>}
MsDeltas == {0, TimeUnit}
MsNormals == {<<-5, 0, 0>>, <<0, 0, -5>>, <<0, 5, 0>>, <<-3, 4, 0>>}
\* what the on_hit closure may do with its mutable handles
\* ("step_up": a climb succeeded, the closure puts the agent on the step and
\* reports the hit as handled)
OnHitChoices == {"noop", "zero_velocity", "step_up"}
\* the climb is tried for the first hit of a call
OnHitChoicesAfter(hits) ==
    IF hits = <<>> THEN OnHitChoices ELSE OnHitChoices \ {"step_up"}
\* const STEP_HEIGHT: f32 = 0.25, in length units
STEP_HEIGHT == 25

\* the hits SpatialQuery::cast_shape may report for a cast along `direction`
\* of at most `limit`: a surface at one of the distances tried, whose normal
\* does not point along the cast
CastDistances(limit, config) ==
    {0, limit \div 2, limit}
Casts(direction, limit, config) ==
    {NoHit} \cup {Hit(d, n) : d \in CastDistances(limit, config),
                              n \in {m \in MsNormals : Dot(m, direction) <= 0}}

\* the closure's effect on (velocity, translation)
on_hit(choice, velocity, translation) ==
    CASE choice = "noop" ->
            [velocity |-> velocity, translation |-> translation, handled |-> FALSE]
      [] choice = "zero_velocity" ->
            [velocity |-> ZERO, translation |-> translation, handled |-> FALSE]
      [] choice = "step_up" ->
            [velocity |-> velocity,
             translation |-> Add(translation, <<0, STEP_HEIGHT, 0>>),
             handled |-> TRUE]

\* for _ in 0..config.max_iterations: whether the loop goes on after
\* iteration number `iter` (counted from 0) ended without a break
loop_continues_unbounded(iter, config) == TRUE
loop_continues(iter, config) == iter + 1 < config.max_iterations

\* velocity * remaining_time
full_motion_ignoring_time(velocity, remaining) == velocity
full_motion(velocity, remaining) == VDiv(Scale(velocity, remaining), TimeUnit)

\* let movement = (safe_movement - config.skin_width).max(0.0)
slide_movement_without_skin(safe, config) == Max(safe, 0)
slide_movement(safe, config) == Max(safe - config.skin_width, 0)

\* let Ok(original_direction) = Dir3::new(*velocity) else { return; }
\* Dir3::new fails for the zero (and the NaN) velocity
dir3_new_is_err_never(velocity, nan) == FALSE
dir3_new_is_err(velocity, nan) == velocity = ZERO \/ nan

\* if velocity.dot(*original_direction) <= 0.0 { break; }
against_original_strictly(solved, original_direction) ==
    ~solved.nan /\ Dot(solved.v, original_direction) < 0
against_original(solved, original_direction) ==
    ~solved.nan /\ Dot(solved.v, original_direction) <= 0

\* remaining_time *= 1.0 - movement_ratio, where movement_ratio is
\* (movement / max_distance).clamp(0.0, 1.0) if max_distance > 0.0, else 0.0
remaining_times_ratio(remaining, movement, max_distance) ==
    IF max_distance > 0
    THEN RDiv(remaining * Max(Min(movement, max_distance), 0), max_distance)
    ELSE 0
remaining_after(remaining, movement, max_distance) ==
    IF max_distance > 0
    THEN RDiv(remaining * (max_distance - Max(Min(movement, max_distance), 0)), max_distance)
    ELSE remaining

\* what the latest loop iteration did: how it ended, and the closure's
\* outputs and the loop's values it started from
NoIteration ==
    [kind |-> "none", handled |-> FALSE, hits |-> <<>>, velocity |-> ZERO,
     translation |-> ZERO, remaining |-> 0, max_distance |-> 0, safe |-> 0,
     sweeps |-> 0, direction |-> ZERO]

MsCall ==
    /\ ms_pc = "call"
    /\ ms_calls' = ms_calls + 1
    /\ ms_start' = [ms_start EXCEPT !.translation = ms_translation, !.velocity = ms_velocity]
    /\ ms_sweeps' = 0
    /\ ms_onhits' = 0
    /\ ms_firstmiss' = FALSE
    /\ ms_last' = NoIteration
    /\ IF dir3_new_is_err(ms_velocity, ms_vnan)
       THEN /\ ms_pc' = "done"
            /\ UNCHANGED <<ms_dir, ms_remaining, ms_hits, ms_iter>>
       ELSE /\ ms_dir' = ms_velocity
            /\ ms_remaining' = ms_delta
            /\ ms_hits' = <<>>
            /\ ms_iter' = 0
            /\ ms_pc' = IF ms_config.max_iterations > 0 THEN "loop" ELSE "done"
    /\ UNCHANGED <<ms_config, ms_delta, ms_translation, ms_velocity, ms_vnan, ms_tnan,
                   ms_touched, ms_anyhit, sweepVars, solveVars, walkVars, charVars, recVars, stepVars>>

\* one iteration of the loop body.  With a NaN velocity (ms_vnan) every
\* comparison is false: max_distance is NaN, the cast goes along Dir3::Y,
\* the loop never breaks on the dot product and the position does not move.
MsIterate ==
    /\ ms_pc = "loop"
    /\ \E max_distance \in {IF ms_vnan THEN 0
                            ELSE RDiv(Length(ms_velocity) * ms_remaining, TimeUnit)} :
       \E cast \in Casts(IF ms_velocity = ZERO THEN DirY ELSE ms_velocity,
                         max_distance + ms_config.skin_width, ms_config),
          choice \in OnHitChoicesAfter(ms_hits) :
       \E sweep \in {character_sweep(ms_config.epsilon, cast)} :
          /\ ms_sweeps' = ms_sweeps + 1
          /\ IF ~sweep.hit
             THEN \* no collision: move the full remaining distance, break
                  /\ choice = "noop"
                  /\ IF ms_vnan
                     THEN ms_tnan' = TRUE /\ UNCHANGED ms_translation
                     ELSE /\ ms_translation' =
                               Add(ms_translation, full_motion(ms_velocity, ms_remaining))
                          /\ UNCHANGED ms_tnan
                  /\ ms_firstmiss' = (ms_firstmiss \/ ms_iter = 0)
                  /\ ms_pc' = "done"
                  /\ ms_last' = [NoIteration EXCEPT !.kind = "miss"]
                  /\ UNCHANGED <<ms_velocity, ms_vnan, ms_remaining, ms_hits, ms_iter,
                                 ms_onhits, ms_touched, ms_anyhit>>
             ELSE \E cb \in {on_hit(choice, ms_velocity, ms_translation)} :
                  \E solved \in {IF ms_vnan /\ choice # "zero_velocity" THEN NaNVec
                                 ELSE solve_collision_planes(cb.velocity,
                                          Append(ms_hits, cast.normal), ms_dir)} :
                  LET movement == slide_movement(sweep.safe, ms_config)
                      against == against_original(solved, ms_dir)
                  IN  /\ ms_onhits' = ms_onhits + 1
                      /\ ms_last' = [kind |-> IF against THEN "against" ELSE "slid",
                                     handled |-> cb.handled, hits |-> ms_hits,
                                     velocity |-> cb.velocity,
                                     translation |-> cb.translation,
                                     remaining |-> ms_remaining,
                                     max_distance |-> max_distance,
                                     safe |-> sweep.safe, sweeps |-> ms_sweeps + 1,
                                     direction |-> ms_velocity]
                      /\ ms_anyhit' = TRUE
                      /\ ms_touched' = (ms_touched \/ choice # "noop")
                      /\ ms_hits' = Append(ms_hits, cast.normal)
                      /\ ms_velocity' = solved.v
                      /\ ms_vnan' = solved.nan
                      /\ ms_firstmiss' = ms_firstmiss
                      /\ UNCHANGED ms_tnan
                      /\ IF against
                         THEN \* velocity is against the original velocity: break
                              /\ ms_translation' = cb.translation
                              /\ ms_pc' = "done"
                              /\ UNCHANGED <<ms_remaining, ms_iter>>
                         ELSE /\ ms_remaining' =
                                    remaining_after(ms_remaining, movement, max_distance)
                              /\ ms_translation' =
                                    IF ms_velocity = ZERO \/ ms_vnan THEN cb.translation
                                    ELSE Add(cb.translation,
                                             VDiv(Scale(ms_velocity, movement), Length(ms_velocity)))
                              /\ ms_iter' = ms_iter + 1
                              /\ ms_pc' = IF loop_continues(ms_iter, ms_config)
                                          THEN "loop" ELSE "done"
    /\ UNCHANGED <<ms_config, ms_delta, ms_dir, ms_start, ms_calls, sweepVars, solveVars,
                   walkVars, charVars, recVars, stepVars>>

\* the caller calls again with the same delta_time (the repeated call is
\* explored for a zero delta_time)
MsAgain ==
    /\ ms_pc = "done"
    /\ ms_calls < MaxCalls
    /\ ms_delta = 0
    /\ ms_pc' = "call"
    /\ UNCHANGED <<ms_config, ms_delta, ms_translation, ms_velocity, ms_vnan, ms_tnan,
                   ms_remaining, ms_hits, ms_iter, ms_dir, ms_start, ms_sweeps,
                   ms_onhits, ms_touched, ms_firstmiss, ms_anyhit, ms_calls, ms_last,
                   sweepVars, solveVars, walkVars, charVars, recVars, stepVars>>

SlideStart ==
    /\ ms_pc = "call"
    /\ ms_config \in MsConfigs
    /\ ms_delta \in MsDeltas
    /\ ms_translation = ZERO
    /\ ms_velocity \in MsVelocities
    /\ ms_vnan = FALSE /\ ms_tnan = FALSE
    /\ ms_remaining = 0 /\ ms_hits = <<>> /\ ms_iter = 0 /\ ms_dir = ZERO
    /\ ms_start = [translation |-> ZERO, velocity |-> ms_velocity,
                   translation0 |-> ZERO, velocity0 |-> ms_velocity]
    /\ ms_sweeps = 0 /\ ms_onhits = 0 /\ ms_touched = FALSE /\ ms_firstmiss = FALSE
    /\ ms_anyhit = FALSE /\ ms_calls = 0
    /\ ms_last = NoIteration

-----------------------------------------------------------------------------
(* Ground classification (character::is_walkable, Ground::new_if_walkable)  *)
(* and the step-up gate of try_step_up_on_hit                               *)

\* An angle limit is PI/4 less a whole number of steps of 1e-4 rad:
\* [minus |-> k] stands for PI/4 - k * 1e-4.
\* const WALKABLE_ANGLE: f32 = std::f32::consts::PI / 4.0
WALKABLE_ANGLE == [frac_pi_4 |-> TRUE, minus |-> 0]
\* the 1e-4 of `WALKABLE_ANGLE - 1e-4`, as 1 / ANGLE_STEP_INV
ANGLE_STEP_INV == 10000
\* WALKABLE_ANGLE - 1e-4, the tolerance try_step_up_on_hit classifies with
step_walkable_angle_unreduced == WALKABLE_ANGLE
step_walkable_angle == [WALKABLE_ANGLE EXCEPT !.minus = @ + 1]

\* angle_between(normal, up) < angle_limit.  With d = normal.up and
\* L = |normal|^2 |up|^2 the angle is below PI/4 - k * 1e-4 iff d > 0 and
\*   cos^2 = d^2 / L > (1 + sin(2k * 1e-4)) / 2,
\* that is (sin x = x to twelve places here) 2 d^2 - L > L * 2k / 10^4.
\* The zero normal has no angle (NaN) and is not walkable.
is_walkable(normal, up, angle_limit) ==
    LET d == Dot(normal, up)
        L == LenSq(normal) * LenSq(up)
        D == 2 * d * d - L
    IN  /\ L > 0
        /\ d > 0
        /\ D > 0
        /\ D > (angle_limit.minus * L) \div (ANGLE_STEP_INV \div 2)

\* Option<Ground>
NoGround == [some |-> FALSE]
Ground(entity, normal) == [some |-> TRUE, entity |-> entity, normal |-> normal]

\* Ground::new_if_walkable(entity, normal, up, walkable_angle)
new_if_walkable(entity, normal, up, walkable_angle) ==
    IF is_walkable(normal, up, walkable_angle) THEN Ground(entity, normal) ELSE NoGround

\* a sweep's hit with the entity it struck
SurfaceHit(entity, normal) == [hit |-> TRUE, entity |-> entity, normal |-> normal]

\* try_step_up_on_hit, as far as the Character is concerned: `climb` is
\* what try_climb_step found (NoHit: "Can't stand here, slide instead");
\* the result is the ground of the StepUpResult, or NoGround for None
try_step_up_on_hit_ungated(climb, up) ==
    IF ~climb.hit THEN NoGround ELSE Ground(climb.entity, climb.normal)
try_step_up_on_hit(climb, up) ==
    IF ~climb.hit THEN NoGround
    ELSE LET ground == new_if_walkable(climb.entity, climb.normal, up, step_walkable_angle)
         IN  IF ~ground.some THEN NoGround
             ELSE IF ~is_walkable(climb.normal, up, step_walkable_angle) THEN NoGround
             ELSE ground

-----------------------------------------------------------------------------
(* Specification SpecWalk: one contact normal classified as the ground of a *)
(* sweep hit ("ground") or as the landing of a step-up ("step")             *)

MaxNormalCoord == 2

\* small normals of every direction, and normals within 2e-4 rad of 45 degrees
WkNormals == {<<x, y, z>> : x \in (-MaxNormalCoord)..MaxNormalCoord,
                            y \in (-MaxNormalCoord)..MaxNormalCoord, z \in {0, 1}}
             \cup {<<0, 5, 0>>, <<-3, 4, 0>>, <<5000, 5001, 0>>, <<-5000, 5001, 0>>,
                   <<4999, 5001, 0>>, <<5001, 5000, 0>>}

WalkIdle == wk_pc = "idle" /\ wk_normal = ZERO /\ wk_use = "ground" /\ wk_out = NoGround
WalkStart ==
    /\ wk_pc = "start"
    /\ wk_normal \in WkNormals
    /\ wk_use \in {"ground", "step"}
    /\ wk_out = NoGround

WalkApply ==
    /\ wk_pc = "start"
    /\ wk_pc' = "done"
    /\ wk_out' = IF wk_use = "ground"
                 THEN new_if_walkable("world", wk_normal, DirY, WALKABLE_ANGLE)
                 ELSE try_step_up_on_hit(SurfaceHit("world", wk_normal), DirY)
    /\ UNCHANGED <<wk_normal, wk_use, sweepVars, solveVars, slideVars, charVars, recVars, stepVars>>

-----------------------------------------------------------------------------
(* The Character component: launch, jump, and the systems jump_input,       *)
(* platform_movement and movement of examples/3d_simple_character/plugin.rs. *)
(* The Transform belongs to the slide loop above; here the state is the     *)
(* component's velocity, ground and previous_ground (up is always Dir3::Y). *)

MOVEMENT_SPEED == 8
GROUND_ACCELERATION == 100
AIR_ACCELERATION == 40
FRICTION == 60
JUMP_IMPULSE == 6
GRAVITY == 20

\* exp(-num / den) in units of 1 / ExpUnit, for num >= 0 and den > 0:
\* the Taylor polynomial of degree 4 at num / (8 den), raised to the 8th
\* power; below exp(-8) the result is 0
ExpUnit == 10000
ExpNeg(num, den) ==
    IF num >= 8 * den THEN 0
    ELSE LET r  == RDiv(num * ExpUnit, 8 * den)
             r2 == RDiv(r * r, ExpUnit)
             r3 == RDiv(r2 * r, ExpUnit)
             r4 == RDiv(r3 * r, ExpUnit)
             e1 == ExpUnit - r + RDiv(r2, 2) - RDiv(r3, 6) + RDiv(r4, 24)
             e2 == RDiv(e1 * e1, ExpUnit)
             e4 == RDiv(e2 * e2, ExpUnit)
         IN  RDiv(e4 * e4, ExpUnit)

\* friction(velocity, friction, delta) = -velocity * (1 - exp(-friction / speed * delta)),
\* zero below a squared speed of 1e-4
friction(velocity, fr, delta) ==
    IF LenSq(velocity) < (LenUnit * LenUnit) \div 10000 THEN ZERO
    ELSE LET factor == ExpNeg(fr * LenUnit * delta, Length(velocity) * TimeUnit)
         IN  VDiv(Scale(velocity, -(ExpUnit - factor)), ExpUnit)

\* acceleration(velocity, direction, max_acceleration, target_speed, delta)
acceleration(velocity, direction, max_acceleration, target_speed, delta) ==
    IF direction = ZERO THEN ZERO
    ELSE LET current_speed == RDiv(Dot(velocity, direction), Length(direction))
         IN  IF current_speed >= target_speed * LenUnit THEN ZERO
             ELSE LET accel_speed == Min(target_speed * LenUnit - current_speed,
                                         RDiv(max_acceleration * LenUnit * delta, TimeUnit))
                  IN  VDiv(Scale(direction, accel_speed), Length(direction))

\* project_motion_on_ground(motion, normal, up): "project motion on ground plane"
project_motion_on_ground(motion, normal, up) == reject_from_normalized(motion, normal)

\* project_motion_on_wall(motion, normal, up): "project motion on wall plane",
\* "avoid sliding up walls": the plane of the wall's horizontal normal
project_motion_on_wall(motion, normal, up) ==
    LET horizontal == Sub(Scale(normal, LenSq(up)), Scale(up, Dot(normal, up)))
    IN  IF horizontal = ZERO THEN motion ELSE reject_from_normalized(motion, horizontal)

\* Character::launch, on c = [velocity, ground]
launch_keeping_ground(c, impulse) ==
    [velocity |-> Add(c.velocity, impulse), ground |-> c.ground]
launch_when_not_into(c, impulse) ==
    [velocity |-> Add(c.velocity, impulse),
     ground |-> IF c.ground.some /\ Dot(c.ground.normal, impulse) >= 0
                THEN NoGround ELSE c.ground]
launch(c, impulse) ==
    [velocity |-> Add(c.velocity, impulse),
     ground |-> IF c.ground.some /\ Dot(c.ground.normal, impulse) > 0
                THEN NoGround ELSE c.ground]

\* Character::jump: launch(up * impulse + up * -down)
jump_without_override(c, up, impulse) ==
    launch(c, VDiv(Scale(up, impulse), Length(up)))
jump(c, up, impulse) ==
    LET down == Min(RDiv(Dot(c.velocity, up), Length(up)), 0)
    IN  launch(c, Add(VDiv(Scale(up, impulse), Length(up)),
                      VDiv(Scale(up, -down), Length(up))))

\* ground_check(.., GROUND_CHECK_DISTANCE, WALKABLE_ANGLE): the ground of the
\* downward probe's hit if that is walkable
ground_check(probe, up, walkable_angle) ==
    IF ~probe.hit THEN NoGround
    ELSE new_if_walkable(probe.entity, probe.normal, up, walkable_angle)

\* platforms.get(entity).map_or(Vec3::ZERO, motion_on_point): `motion` is
\* the platform's displacement over the tick at the character's position
platform_motion(entity, motion) == IF entity = "platform" THEN motion ELSE ZERO

-----------------------------------------------------------------------------
(* Specification Spec: a character spawned with Character::default() and    *)
(* driven by up to MaxOps calls of launch and jump and runs of the systems  *)

MaxOps == 2
MaxTickHits == 1
\* time.delta_secs() of a fixed update, in time units
TickDelta == 1

ChNormals == {<<0, 5, 0>>, <<-3, 4, 0>>, <<-4, 3, 0>>}
ChSurfaces == {SurfaceHit("world", n) : n \in ChNormals}
              \cup {SurfaceHit("platform", <<0, 5, 0>>)}
ChCasts == {NoHit} \cup ChSurfaces
\* the camera-relative input direction
InputDirs == {ZERO, <<5, 0, 0>>}
LaunchImpulses == {<<300, 0, 0>>, <<-300, 0, 0>>, <<0, -300, 0>>, <<400, 300, 0>>}
JumpImpulses == {300, JUMP_IMPULSE * LenUnit}
\* a platform's displacement over one tick
PlatformMotions == {ZERO, <<25, 0, 0>>}

\* character.config.epsilon of the characters tried
ChEpsilons == {0, 1}
\* what the sweep along a platform motion may meet
PlatformCasts(motion) ==
    {NoHit} \cup {Hit(d, <<-5, 0, 0>>) : d \in {0, Length(motion) \div 2, Length(motion)}}

\* sweep_check(collider, epsilon, translation, direction, max_distance, ..):
\* the sweep primitive under the name the example imports
sweep_check(epsilon, cast) == character_sweep(epsilon, cast)

\* (Some(ground), ..): what is added to transform.translation
platform_follow_teleport(motion, sweep) == motion
platform_follow(motion, sweep) ==
    IF motion = ZERO
    THEN ZERO   \* Dir3::new_and_length fails: nothing is moved
    ELSE LET max_distance == Length(motion)
             safe_distance == IF sweep.hit THEN sweep.safe ELSE max_distance
         IN  VDiv(Scale(motion, safe_distance), max_distance)

\* (None, Some(previous_ground)): platform_motion / time.delta_secs()
platform_velocity(motion) == VDiv(Scale(motion, TimeUnit), TickDelta)

\* character.previous_ground = character.ground
previous_ground_kept(ground, previous_ground) == previous_ground
previous_ground_after(ground, previous_ground) == ground

\* the latest run of platform_movement: the Character it found, the platform
\* motion and the sweep of the run, what it added to the translation, and
\* how many runs in a row since the last grounded one added to the velocity
NoPlatformRun ==
    [ground |-> NoGround, previous |-> NoGround, motion |-> ZERO, sweep |-> NoHit,
     shift |-> ZERO, velocity |-> ZERO, inherits |-> 0]
\* the ground probe of the latest movement tick: whether ground_check was
\* called, the ground the slide loop had found, the probe's ground and
\* distance, and what the snap added to the translation
NoProbe ==
    [ran |-> FALSE, slide_ground |-> NoGround, found |-> NoGround, distance |-> 0,
     snap |-> ZERO]
\* the calls of try_step_up_on_hit in the latest movement tick: whether any
\* was made, any while the character was not grounded and had found no
\* ground, and any on a walkable hit
NoStep == [any |-> FALSE, ungrounded |-> FALSE, walkable |-> FALSE]
StepTried(step, grounded, walkable) ==
    [any |-> TRUE, ungrounded |-> step.ungrounded \/ ~grounded,
     walkable |-> step.walkable \/ walkable]
\* const GROUND_CHECK_DISTANCE: f32 = 0.1, in length units
GROUND_CHECK_DISTANCE == 10
ProbeDistances == {0, GROUND_CHECK_DISTANCE}

Last(op, impulse) ==
    [op |-> op, impulse |-> impulse, velocity |-> ch_velocity, ground |-> ch_ground]

\* Character::default()
CharStart ==
    /\ ch_pc = "idle"
    /\ ch_velocity = ZERO
    /\ ch_platform = NoPlatformRun /\ ch_probe = NoProbe /\ ch_step = NoStep
    /\ ch_ground = NoGround
    /\ ch_previous_ground = NoGround
    /\ ch_new_ground = NoGround /\ ch_move_accel = ZERO /\ ch_hits = 0
    /\ ch_ops = 0
    /\ ch_last = [op |-> "spawn", impulse |-> ZERO, velocity |-> ZERO, ground |-> NoGround]
    /\ ch_sawwall = FALSE

\* character.launch(impulse), called by gameplay code
Launch ==
    /\ ch_pc = "idle" /\ ch_ops < MaxOps
    /\ \E impulse \in LaunchImpulses :
       \E c \in {launch([velocity |-> ch_velocity, ground |-> ch_ground], impulse)} :
          /\ ch_velocity' = c.velocity
          /\ ch_ground' = c.ground
          /\ ch_last' = Last("launch", impulse)
    /\ ch_ops' = ch_ops + 1
    /\ UNCHANGED <<ch_pc, ch_previous_ground, ch_new_ground, ch_move_accel, ch_hits,
                   ch_sawwall, ch_platform, ch_probe, ch_step,
                   sweepVars, solveVars, slideVars, walkVars, recVars, stepVars>>

\* character.jump(impulse), called by gameplay code
Jump ==
    /\ ch_pc = "idle" /\ ch_ops < MaxOps
    /\ \E impulse \in JumpImpulses :
       \E c \in {jump([velocity |-> ch_velocity, ground |-> ch_ground], DirY, impulse)} :
          /\ ch_velocity' = c.velocity
          /\ ch_ground' = c.ground
          /\ ch_last' = Last("jump", impulse)
    /\ ch_ops' = ch_ops + 1
    /\ UNCHANGED <<ch_pc, ch_previous_ground, ch_new_ground, ch_move_accel, ch_hits,
                   ch_sawwall, ch_platform, ch_probe, ch_step,
                   sweepVars, solveVars, slideVars, walkVars, recVars, stepVars>>

\* the system jump_input with the Jump action fired: a no-op unless grounded
JumpInput ==
    /\ ch_pc = "idle" /\ ch_ops < MaxOps
    /\ ch_ground.some
    /\ \E c \in {jump([velocity |-> ch_velocity, ground |-> ch_ground], DirY,
                      JUMP_IMPULSE * LenUnit)} :
          /\ ch_velocity' = c.velocity
          /\ ch_ground' = c.ground
    /\ ch_last' = Last("jump_input", JUMP_IMPULSE * LenUnit)
    /\ ch_ops' = ch_ops + 1
    /\ UNCHANGED <<ch_pc, ch_previous_ground, ch_new_ground, ch_move_accel, ch_hits,
                   ch_sawwall, ch_platform, ch_probe, ch_step,
                   sweepVars, solveVars, slideVars, walkVars, recVars, stepVars>>

\* the system platform_movement
PlatformTick ==
    /\ ch_pc = "idle" /\ ch_ops < MaxOps
    /\ \E motion \in PlatformMotions :
       IF ch_ground.some
       THEN \* currently on the platform: follow its movement, by a sweep
            \E followed \in {platform_motion(ch_ground.entity, motion)} :
            \E cast \in PlatformCasts(followed), epsilon \in ChEpsilons :
            \E sweep \in {sweep_check(epsilon, cast)} :
               /\ followed = ZERO => (~cast.hit /\ epsilon = 0)
               /\ ch_platform' = [ground |-> ch_ground, previous |-> ch_previous_ground,
                                  motion |-> motion, sweep |-> sweep,
                                  shift |-> platform_follow(followed, sweep),
                                  velocity |-> ch_velocity, inherits |-> 0]
               /\ UNCHANGED ch_velocity
       ELSE IF ch_previous_ground.some
       THEN \* left the platform: inherit the platform velocity
            /\ ch_velocity' =
                  Add(ch_velocity,
                      platform_velocity(platform_motion(ch_previous_ground.entity, motion)))
            /\ ch_platform' = [ground |-> ch_ground, previous |-> ch_previous_ground,
                               motion |-> motion, sweep |-> NoHit, shift |-> ZERO,
                               velocity |-> ch_velocity,
                               inherits |-> ch_platform.inherits + 1]
       ELSE /\ motion = ZERO
            /\ ch_platform' = [ground |-> ch_ground, previous |-> ch_previous_ground,
                               motion |-> motion, sweep |-> NoHit, shift |-> ZERO,
                               velocity |-> ch_velocity,
                               inherits |-> ch_platform.inherits]
            /\ UNCHANGED ch_velocity
    /\ ch_previous_ground' = previous_ground_after(ch_ground, ch_previous_ground)
    /\ ch_last' = Last("platform", ZERO)
    /\ ch_ops' = ch_ops + 1
    /\ UNCHANGED <<ch_pc, ch_ground, ch_new_ground, ch_move_accel, ch_hits,
                   ch_sawwall, ch_probe, ch_step,
                   sweepVars, solveVars, slideVars, walkVars, recVars, stepVars>>

\* the system movement, up to the sensor shortcut: friction or gravity, and
\* the acceleration along the input direction
TickBegin ==
    /\ ch_pc = "idle" /\ ch_ops < MaxOps
    /\ \E direction \in InputDirs, has_sensor \in BOOLEAN :
       \E v1 \in {IF ch_ground.some
                  THEN Add(ch_velocity, friction(ch_velocity, FRICTION, TickDelta))
                  ELSE Add(ch_velocity,
                           VDiv(Scale(DirY, -RDiv(GRAVITY * LenUnit * TickDelta, TimeUnit)),
                                Length(DirY)))} :
       \E move_accel \in {acceleration(v1, direction,
                                       IF ch_ground.some THEN GROUND_ACCELERATION
                                       ELSE AIR_ACCELERATION,
                                       MOVEMENT_SPEED, TickDelta)} :
          IF has_sensor
          THEN /\ ch_velocity' = Add(v1, move_accel)
               /\ UNCHANGED <<ch_pc, ch_move_accel>>
          ELSE /\ ch_velocity' = v1
               /\ ch_move_accel' = IF ch_ground.some
                                   THEN project_motion_on_ground(move_accel,
                                                                 ch_ground.normal, DirY)
                                   ELSE move_accel
               /\ ch_pc' = "presweep"
    /\ ch_new_ground' = NoGround
    /\ ch_hits' = 0
    /\ ch_sawwall' = FALSE
    /\ ch_last' = Last("movement", ZERO)
    /\ ch_ops' = ch_ops + 1
    /\ ch_probe' = NoProbe
    /\ ch_step' = NoStep
    /\ UNCHANGED <<ch_ground, ch_previous_ground, ch_platform,
                   sweepVars, solveVars, slideVars, walkVars, recVars, stepVars>>

\* the sweep along the acceleration, before the slide loop
TickPreSweep ==
    /\ ch_pc = "presweep"
    /\ IF ch_move_accel = ZERO
       THEN \* Dir3::new_and_length fails: no sweep
            UNCHANGED <<ch_velocity, ch_new_ground, ch_move_accel, ch_sawwall, ch_step>>
       ELSE \E cast \in ChCasts, climb \in ChCasts :
            IF ~cast.hit
            THEN /\ ~climb.hit
                 /\ ch_velocity' = Add(ch_velocity, ch_move_accel)
                 /\ UNCHANGED <<ch_new_ground, ch_move_accel, ch_sawwall, ch_step>>
            ELSE \E ground \in {new_if_walkable(cast.entity, cast.normal, DirY,
                                                WALKABLE_ANGLE)} :
                 \E step \in {try_step_up_on_hit(climb, DirY)} :
                 \E accel \in {IF ground.some
                               THEN project_motion_on_ground(ch_move_accel, cast.normal, DirY)
                               ELSE IF step.some THEN ch_move_accel
                               ELSE project_motion_on_wall(ch_move_accel, cast.normal, DirY)} :
                    /\ ground.some => ~climb.hit
                    /\ ch_new_ground' = IF ground.some THEN ground
                                        ELSE IF step.some THEN step
                                        ELSE ch_new_ground
                    /\ ch_move_accel' = accel
                    /\ ch_velocity' = Add(ch_velocity, accel)
                    /\ ch_sawwall' = (ch_sawwall \/ ~ground.some)
                    \* the else-if of line 272 calls try_step_up_on_hit
                    \* for every hit that is not walkable
                    /\ ch_step' = IF ground.some THEN ch_step
                                  ELSE StepTried(ch_step,
                                                 ch_ground.some \/ ch_new_ground.some,
                                                 FALSE)
    /\ ch_pc' = "slide"
    /\ UNCHANGED <<ch_ground, ch_previous_ground, ch_hits, ch_ops, ch_last,
                   ch_platform, ch_probe,
                   sweepVars, solveVars, slideVars, walkVars, recVars, stepVars>>

\* one hit of the slide loop: the on_hit closure
TickSlideHit ==
    /\ ch_pc = "slide"
    /\ ch_hits < MaxTickHits /\ ch_hits < DEFAULT_MAX_ITERATIONS
    /\ ch_hits > 0 \/ ch_velocity # ZERO
    /\ \E hit \in ChSurfaces, climb \in ChCasts :
       \E ground \in {new_if_walkable(hit.entity, hit.normal, DirY, WALKABLE_ANGLE)} :
          IF ground.some
          THEN /\ ~climb.hit
               /\ ch_new_ground' = ground
               \* Avoid sliding down slopes when just landing
               /\ ch_velocity' = IF ~ch_ground.some
                                 THEN project_motion_on_ground(ch_velocity, hit.normal, DirY)
                                 ELSE ch_velocity
               /\ UNCHANGED <<ch_sawwall, ch_step>>
          ELSE \E grounded \in {ch_ground.some \/ ch_new_ground.some} :
               \E step \in {IF grounded THEN try_step_up_on_hit(climb, DirY) ELSE NoGround} :
                  /\ ~grounded => ~climb.hit
                  /\ ch_sawwall' = TRUE
                  /\ ch_step' = IF grounded THEN StepTried(ch_step, grounded, FALSE)
                                ELSE ch_step
                  /\ IF step.some
                     THEN ch_new_ground' = step /\ UNCHANGED ch_velocity
                     ELSE /\ UNCHANGED ch_new_ground
                          /\ ch_velocity' =
                                 IF grounded
                                 THEN project_motion_on_wall(ch_velocity, hit.normal, DirY)
                                 ELSE reject_from_normalized(ch_velocity, hit.normal)
    /\ ch_hits' = ch_hits + 1
    /\ UNCHANGED <<ch_pc, ch_ground, ch_previous_ground, ch_move_accel, ch_ops, ch_last,
                   ch_platform, ch_probe,
                   sweepVars, solveVars, slideVars, walkVars, recVars, stepVars>>

\* if character.grounded() { if let Some(..) = ground_check(..) {..} }
probe_runs_always(ground, new_ground) == TRUE
probe_runs(ground, new_ground) == ground.some

\* after the slide loop: the ground probe, and `character.ground = new_ground`
TickEnd ==
    /\ ch_pc = "slide"
    /\ \E probe \in ChCasts, distance \in ProbeDistances :
          IF probe_runs(ch_ground, ch_new_ground)
          THEN \E found \in {ground_check(probe, DirY, WALKABLE_ANGLE)} :
                  /\ ~found.some => distance = 0
                  /\ ch_ground' = IF found.some THEN found ELSE ch_new_ground
                  /\ ch_probe' = [ran |-> TRUE, slide_ground |-> ch_new_ground,
                                  found |-> found,
                                  distance |-> distance,
                                  snap |-> IF found.some
                                           THEN VDiv(Scale(DirY, -distance), Length(DirY))
                                           ELSE ZERO]
          ELSE /\ ~probe.hit /\ distance = 0
               /\ ch_ground' = ch_new_ground
               /\ ch_probe' = [NoProbe EXCEPT !.slide_ground = ch_new_ground]
    /\ ch_pc' = "idle"
    /\ ch_new_ground' = NoGround
    /\ ch_move_accel' = ZERO
    /\ ch_hits' = 0
    /\ UNCHANGED <<ch_velocity, ch_previous_ground, ch_ops, ch_last, ch_sawwall,
                   ch_platform, ch_step,
                   sweepVars, solveVars, slideVars, walkVars, recVars, stepVars>>

\* a character some ticks into a game: standing on a platform that
\* platform_movement has followed, or in the air right after a jump off it
CharPlatformStart ==
    /\ ch_pc = "idle"
    /\ \/ /\ ch_ground = Ground("platform", <<0, 5, 0>>)
          /\ ch_velocity = ZERO
       \/ /\ ch_ground = NoGround
          /\ ch_velocity = <<0, 300, 0>>
    /\ ch_previous_ground = Ground("platform", <<0, 5, 0>>)
    /\ ch_platform = [NoPlatformRun EXCEPT !.ground = ch_previous_ground,
                                           !.previous = ch_previous_ground]
    /\ ch_probe = NoProbe /\ ch_step = NoStep
    /\ ch_new_ground = NoGround /\ ch_move_accel = ZERO /\ ch_hits = 0
    /\ ch_ops = 0
    /\ ch_last = [op |-> "spawn", impulse |-> ZERO, velocity |-> ZERO, ground |-> NoGround]
    /\ ch_sawwall = FALSE

CharIdle ==
    /\ ch_pc = "off"
    /\ ch_velocity = ZERO
    /\ ch_platform = NoPlatformRun /\ ch_probe = NoProbe /\ ch_step = NoStep
    /\ ch_ground = NoGround
    /\ ch_previous_ground = NoGround
    /\ ch_new_ground = NoGround /\ ch_move_accel = ZERO /\ ch_hits = 0
    /\ ch_ops = 0
    /\ ch_last = [op |-> "spawn", impulse |-> ZERO, velocity |-> ZERO, ground |-> NoGround]
    /\ ch_sawwall = FALSE

-----------------------------------------------------------------------------
(* Specification SpecRecorder: the demo recorder over MaxFrames frames.     *)
(* A frame runs PreUpdate (the input observers), StateTransition, the      *)
(* fixed main loop (FixedLast any number of times) and Update.             *)

MaxFrames == 4
MaxSnapshots == 2
\* FixedLast runs of one frame
MaxFixedRuns == 2

RecorderStates == {"Stopped", "Saving", "Recording"}

\* record_input: match state.get() { Stopped => next_state.set(Recording), _ => () }
record_input_in_any_state(state, next) == "Recording"
record_input(state, next) == IF state = "Stopped" THEN "Recording" ELSE next

\* save_input: match state.get() { Recording => next_state.set(Saving), _ => () }
save_input(state, next) == IF state = "Recording" THEN "Saving" ELSE next

\* save_demo's match on state.get()
save_demo_next(state, next) ==
    CASE state = "Saving" -> "Stopped"
      [] state = "Recording" -> "Saving"
      [] OTHER -> next

\* RecorderState::default(), DemoHandler::default()
RecStart ==
    /\ rec_pc = "PreUpdate" /\ rec_frame = 0
    /\ rec_state = "Stopped" /\ rec_next = "Unchanged" /\ rec_cause = "none"
    /\ rec_snapshots = <<>> /\ rec_saved = <<>>

\* the observer record_input, on Completed<RecordDemo>
RecordInput ==
    /\ rec_pc = "PreUpdate"
    /\ rec_next' = record_input(rec_state, rec_next)
    /\ rec_cause' = IF rec_next' # rec_next THEN "record_input" ELSE rec_cause
    /\ UNCHANGED <<rec_pc, rec_frame, rec_state, rec_snapshots, rec_saved,
                   sweepVars, solveVars, slideVars, walkVars, charVars, stepVars>>

\* the observer save_input, on Completed<SaveDemo>
SaveInput ==
    /\ rec_pc = "PreUpdate"
    /\ rec_next' = save_input(rec_state, rec_next)
    /\ rec_cause' = IF rec_next' # rec_next THEN "save_input" ELSE rec_cause
    /\ UNCHANGED <<rec_pc, rec_frame, rec_state, rec_snapshots, rec_saved,
                   sweepVars, solveVars, slideVars, walkVars, charVars, stepVars>>

\* the StateTransition schedule: a pending NextState becomes the State
StateTransition ==
    /\ rec_pc = "PreUpdate"
    /\ rec_state' = IF rec_next = "Unchanged" THEN rec_state ELSE rec_next
    /\ rec_next' = "Unchanged"
    /\ rec_pc' = "FixedLast"
    /\ UNCHANGED <<rec_frame, rec_cause, rec_snapshots, rec_saved,
                   sweepVars, solveVars, slideVars, walkVars, charVars, stepVars>>

\* save_demo.run_if(in_state(RecorderState::Saving)), in FixedLast
SaveDemo ==
    /\ rec_pc = "FixedLast"
    /\ rec_state = "Saving"
    /\ Len(rec_saved) < MaxFixedRuns * MaxFrames
    /\ rec_saved' = Append(rec_saved, Len(rec_snapshots))
    /\ rec_snapshots' = <<>>
    /\ rec_next' = save_demo_next(rec_state, rec_next)
    /\ rec_cause' = "save_demo"
    /\ rec_pc' \in {"FixedLast", "Update"}
    /\ rec_pc' = "FixedLast" => Len(rec_saved') % MaxFixedRuns # 0
    /\ UNCHANGED <<rec_frame, rec_state,
                   sweepVars, solveVars, slideVars, walkVars, charVars, stepVars>>

\* a frame in which FixedLast does not run, or save_demo is not scheduled
FixedSkipped ==
    /\ rec_pc = "FixedLast"
    /\ rec_pc' = "Update"
    /\ UNCHANGED <<rec_frame, rec_state, rec_next, rec_cause, rec_snapshots, rec_saved,
                   sweepVars, solveVars, slideVars, walkVars, charVars, stepVars>>

\* record_demo.run_if(in_state(RecorderState::Recording)), in Update: a
\* snapshot of the character is pushed when the timer has just finished
RecordDemo ==
    /\ rec_pc = "Update"
    /\ rec_state = "Recording"
    /\ rec_frame < MaxFrames
    /\ \E just_finished \in BOOLEAN :
          rec_snapshots' = IF just_finished /\ Len(rec_snapshots) < MaxSnapshots
                           THEN Append(rec_snapshots, rec_frame)
                           ELSE rec_snapshots
    /\ rec_pc' = "PreUpdate"
    /\ rec_frame' = rec_frame + 1
    /\ UNCHANGED <<rec_state, rec_next, rec_cause, rec_saved,
                   sweepVars, solveVars, slideVars, walkVars, charVars, stepVars>>

\* Update of a frame in which record_demo's run condition is false
UpdateIdle ==
    /\ rec_pc = "Update"
    /\ rec_state # "Recording"
    /\ rec_frame < MaxFrames
    /\ rec_pc' = "PreUpdate"
    /\ rec_frame' = rec_frame + 1
    /\ UNCHANGED <<rec_state, rec_next, rec_cause, rec_snapshots, rec_saved,
                   sweepVars, solveVars, slideVars, walkVars, charVars, stepVars>>

RecIdle ==
    /\ rec_pc = "off" /\ rec_frame = 0
    /\ rec_state = "Stopped" /\ rec_next = "Unchanged" /\ rec_cause = "none"
    /\ rec_snapshots = <<>> /\ rec_saved = <<>>

-----------------------------------------------------------------------------
(* Specification SpecStep: one non-walkable or walkable hit of the slide    *)
(* loop handed to the on_hit closure of the character, in the example's    *)
(* version (plugin.rs) and in the library's (movement.rs)                  *)

\* const CHARACTER_RADIUS: f32 = 0.35, in length units
CHARACTER_RADIUS == 35

\* let inward = CHARACTER_RADIUS * (1.0 - WALKABLE_ANGLE.cos()) + epsilon * PI
step_inward(epsilon) == RDiv(CHARACTER_RADIUS * 2929, 10000) + RDiv(epsilon * 355, 113)

\* step_forward = (step_forward - inward).max(0.0)
step_forward(remaining_motion, inward) == Max(remaining_motion - inward, 0)

\* let move_time = (step_forward + inward) * delta_time
\* (a length in length units times a time in time units)
step_move_time(forward, inward, delta_time) == (forward + inward) * delta_time

\* (*hit.remaining_time - step_result.move_time).max(0.0), all in units of
\* 1 / (LenUnit * TimeUnit)
step_remaining_time(remaining_time, move_time) == Max(remaining_time - move_time, 0)

\* what try_climb_step found: the surface the climb came to rest on and the
\* translation it settled at
StepClimb(normal, translation) ==
    [hit |-> TRUE, entity |-> "world", normal |-> normal, translation |-> translation]

\* Option<StepUpResult> of try_step_up_on_hit
NoStepUp == [some |-> FALSE]
StepUpResult(climb, up, remaining_motion, epsilon, delta_time) ==
    LET inward == step_inward(epsilon)
        forward == step_forward(remaining_motion, inward)
        ground == try_step_up_on_hit(climb, up)
    IN  IF ~ground.some THEN NoStepUp
        ELSE [some |-> TRUE, translation |-> climb.translation,
              move_time |-> step_move_time(forward, inward, delta_time),
              ground |-> ground]

\* let up_vel = movement.translation.dot(*character.up).max(0.0);
\* *movement.velocity -= character.up * up_vel
movement_velocity_after_step(velocity, translation, up) ==
    LET up_vel == Max(RDiv(Dot(translation, up), Length(up)), 0)
    IN  Sub(velocity, VDiv(Scale(up, up_vel), Length(up)))

\* the hits and the closure's handles tried
StNormals == {<<-5, 0, 0>>, <<-4, 3, 0>>, <<0, 5, 0>>}
StClimbNormals == {<<0, 5, 0>>, <<-5000, 5001, 0>>, <<-4, 3, 0>>}
StClimbOffsets == {<<10, STEP_HEIGHT, 0>>, <<0, 10, 0>>}
StTranslations == {ZERO, <<0, 50, 0>>}
StVelocities == {<<100, 0, 0>>, <<100, 50, 0>>, <<100, -50, 0>>}
StRemainingMotions == {0, 5, 40}
StDeltas == {1, TimeUnit}
StRemainingTimes == {0, 50, LenUnit * TimeUnit}

StepInputs ==
    [translation : StTranslations, velocity : StVelocities,
     remaining_time : StRemainingTimes, remaining_motion : StRemainingMotions,
     epsilon : ChEpsilons, delta_time : StDeltas, normal : StNormals,
     grounded : BOOLEAN, new_ground : {NoGround, Ground("world", <<0, 5, 0>>)}]

\* what the closure leaves in its handles and captures, and what it returns
\* (true: slide along the hit; false: the hit was stepped over)
StepOutput(in) ==
    [closure |-> "none", new_ground |-> in.new_ground, velocity |-> in.velocity,
     character_velocity |-> in.velocity, translation |-> in.translation,
     remaining_time |-> in.remaining_time, attempted |-> FALSE, stepped |-> FALSE,
     slide |-> TRUE]

StepStart ==
    /\ st_pc = "input"
    /\ \E in \in StepInputs, climb \in {NoHit} \cup
                     {StepClimb(n, o) : n \in StClimbNormals, o \in StClimbOffsets} :
          /\ st_in = [in |-> in,
                      climb |-> IF climb.hit
                                THEN StepClimb(climb.normal, Add(in.translation, climb.translation))
                                ELSE NoHit]
          /\ st_out = StepOutput(in)

StepIdle ==
    /\ st_pc = "idle"
    /\ st_in = [in |-> ZERO, climb |-> NoHit]
    /\ st_out = [closure |-> "none"]

\* the on_hit closure of the example's movement system
PluginOnHit ==
    /\ st_pc = "input"
    /\ LET in == st_in.in
           climb == st_in.climb
           ground == new_if_walkable("world", in.normal, DirY, WALKABLE_ANGLE)
           grounded == in.grounded \/ in.new_ground.some
           result == IF grounded
                     THEN StepUpResult(climb, DirY, in.remaining_motion, in.epsilon,
                                       in.delta_time)
                     ELSE NoStepUp
           out == [st_out EXCEPT !.closure = "plugin"]
       IN  st_out' =
             IF ground.some
             THEN \* walkable: the new ground; "avoid sliding down slopes when
                  \* just landing"
                  [out EXCEPT !.new_ground = ground,
                      !.velocity = IF ~in.grounded
                                   THEN project_motion_on_ground(@, in.normal, DirY) ELSE @,
                      !.character_velocity =
                                   IF ~in.grounded
                                   THEN project_motion_on_ground(@, in.normal, DirY) ELSE @]
             ELSE IF result.some
             THEN [out EXCEPT !.attempted = TRUE, !.stepped = TRUE, !.slide = FALSE,
                      !.new_ground = result.ground,
                      !.remaining_time = step_remaining_time(@, result.move_time),
                      !.translation = result.translation]
             ELSE IF grounded
             THEN \* "avoid sliding up walls when grounded"
                  [out EXCEPT !.attempted = TRUE,
                      !.character_velocity = project_motion_on_wall(@, in.normal, DirY),
                      !.velocity = project_motion_on_wall(@, in.normal, DirY)]
             ELSE [out EXCEPT
                      !.character_velocity = reject_from_normalized(@, in.normal)]
    /\ st_pc' = "done"
    /\ UNCHANGED <<st_in, sweepVars, solveVars, slideVars, walkVars, charVars, recVars>>

\* the on_hit closure of the library's movement system
MovementOnHit ==
    /\ st_pc = "input"
    /\ LET in == st_in.in
           climb == st_in.climb
           ground == new_if_walkable("world", in.normal, DirY, WALKABLE_ANGLE)
           inward == step_inward(in.epsilon)
           forward == step_forward(in.remaining_motion, inward)
           step_ground == IF climb.hit
                          THEN new_if_walkable(climb.entity, climb.normal, DirY,
                                               WALKABLE_ANGLE)
                          ELSE NoGround
           out == [st_out EXCEPT !.closure = "movement"]
       IN  st_out' =
             IF ground.some
             THEN [out EXCEPT !.new_ground = ground]
             ELSE IF ~in.grounded /\ ~in.new_ground.some
             THEN out
             ELSE IF ~step_ground.some
             THEN \* "Can't stand here, slide instead"
                  [out EXCEPT !.attempted = TRUE]
             ELSE [out EXCEPT !.attempted = TRUE, !.stepped = TRUE, !.slide = FALSE,
                      !.new_ground = step_ground,
                      !.velocity = movement_velocity_after_step(@, in.translation, DirY),
                      !.translation = climb.translation,
                      !.remaining_time =
                          step_remaining_time(@, step_move_time(forward, inward,
                                                               in.delta_time))]
    /\ st_pc' = "done"
    /\ UNCHANGED <<st_in, sweepVars, solveVars, slideVars, walkVars, charVars, recVars>>

-----------------------------------------------------------------------------
SlideIdle ==
    /\ ms_pc = "idle" /\ ms_config = [max_iterations |-> 0, skin_width |-> 0, epsilon |-> 0]
    /\ ms_delta = 0 /\ ms_translation = ZERO /\ ms_velocity = ZERO
    /\ ms_vnan = FALSE /\ ms_tnan = FALSE /\ ms_remaining = 0 /\ ms_hits = <<>>
    /\ ms_iter = 0 /\ ms_dir = ZERO
    /\ ms_start = [translation |-> ZERO, velocity |-> ZERO,
                   translation0 |-> ZERO, velocity0 |-> ZERO]
    /\ ms_sweeps = 0 /\ ms_onhits = 0 /\ ms_touched = FALSE /\ ms_firstmiss = FALSE
    /\ ms_anyhit = FALSE /\ ms_calls = 0
    /\ ms_last = NoIteration

InitSweep == SweepStart /\ SolveIdle /\ SlideIdle /\ WalkIdle /\ CharIdle /\ RecIdle /\ StepIdle
NextSweep == SweepApply
SpecSweep == InitSweep /\ [][NextSweep]_vars

InitSolve == SweepIdle /\ SolveStart /\ SlideIdle /\ WalkIdle /\ CharIdle /\ RecIdle /\ StepIdle
NextSolve == SolveApply
SpecSolve == InitSolve /\ [][NextSolve]_vars

InitFold == SweepIdle /\ SolveStartTilted /\ SlideIdle /\ WalkIdle /\ CharIdle /\ RecIdle /\ StepIdle
SpecFold == InitFold /\ [][NextSolve]_vars

InitSlide == SweepIdle /\ SolveIdle /\ SlideStart /\ WalkIdle /\ CharIdle /\ RecIdle /\ StepIdle
NextSlide == MsCall \/ MsIterate \/ MsAgain
SpecSlide == InitSlide /\ [][NextSlide]_vars

InitWalk == SweepIdle /\ SolveIdle /\ SlideIdle /\ WalkStart /\ CharIdle /\ RecIdle /\ StepIdle
NextWalk == WalkApply
SpecWalk == InitWalk /\ [][NextWalk]_vars

Init == SweepIdle /\ SolveIdle /\ SlideIdle /\ WalkIdle /\ CharStart /\ RecIdle /\ StepIdle
Next ==
    \/ Launch \/ Jump \/ JumpInput \/ PlatformTick
    \/ TickBegin \/ TickPreSweep \/ TickSlideHit \/ TickEnd
Spec == Init /\ [][Next]_vars

InitRecorder == SweepIdle /\ SolveIdle /\ SlideIdle /\ WalkIdle /\ CharIdle /\ RecStart /\ StepIdle
NextRecorder ==
    \/ RecordInput \/ SaveInput \/ StateTransition
    \/ SaveDemo \/ FixedSkipped \/ RecordDemo \/ UpdateIdle
SpecRecorder == InitRecorder /\ [][NextRecorder]_vars

InitStep == SweepIdle /\ SolveIdle /\ SlideIdle /\ WalkIdle /\ CharIdle /\ RecIdle /\ StepStart
NextStep == PluginOnHit \/ MovementOnHit
SpecStep == InitStep /\ [][NextStep]_vars

InitPlatform == SweepIdle /\ SolveIdle /\ SlideIdle /\ WalkIdle /\ CharPlatformStart /\ RecIdle /\ StepIdle
SpecPlatform == InitPlatform /\ [][Next]_vars

-----------------------------------------------------------------------------
(* Claims *)

\* C1 as stated: for every hit the safe distance is never negative and never
\* greater than the hit distance minus epsilon.
C1_AsStated ==
    (sw_pc = "done" /\ sw_hit.hit) =>
        /\ sw_out.safe >= 0
        /\ sw_out.safe <= sw_hit.distance - sw_epsilon

\* C1 (amended): for every hit the sweep returns the hit with a safe distance
\* that is never negative, equals hit.distance - epsilon when the hit is at
\* least epsilon away and is 0 when it is nearer (so it exceeds
\* hit.distance - epsilon only by the clamp at 0); no hit gives None.
C1_SafeDistance ==
    sw_pc = "done" =>
        /\ sw_out.hit = sw_hit.hit
        /\ sw_hit.hit =>
              /\ sw_out.safe >= 0
              /\ sw_out.safe <= sw_hit.distance
              /\ sw_hit.distance >= sw_epsilon => sw_out.safe + sw_epsilon = sw_hit.distance
              /\ sw_hit.distance < sw_epsilon => sw_out.safe = 0
              /\ sw_out.distance = sw_hit.distance
              /\ sw_out.normal = sw_hit.normal

C1_Witness ==
    /\ sw_pc = "done" /\ sw_hit.hit
    /\ sw_hit.distance < sw_epsilon
    /\ sw_out.safe = 0

\* C2: one call of move_and_slide makes at most config.max_iterations
\* sweeps, whatever the world and the on_hit closure do, and is over after
\* the last one even when remaining time is left.
C2_BoundedSweeps ==
    /\ ms_sweeps <= ms_config.max_iterations
    /\ ms_pc = "loop" => ms_iter < ms_config.max_iterations
    /\ ms_sweeps = ms_config.max_iterations => ms_pc # "loop"

C2_Witness ==
    /\ ms_pc = "done"
    /\ ms_config.max_iterations = DEFAULT_MAX_ITERATIONS
    /\ ms_sweeps = DEFAULT_MAX_ITERATIONS
    /\ ms_onhits = DEFAULT_MAX_ITERATIONS
    /\ ms_remaining > 0
    /\ ms_velocity # ZERO

\* C3: if the first sweep of a call finds no hit, the call ends with
\* position = initial position + velocity * delta_time, the velocity
\* unchanged and on_hit never invoked.
C3_OpenVolume ==
    (ms_pc = "done" /\ ms_firstmiss) =>
        /\ ~ms_tnan /\ ~ms_vnan
        /\ Scale(Sub(ms_translation, ms_start.translation), TimeUnit)
             = Scale(ms_start.velocity, ms_delta)
        /\ ms_velocity = ms_start.velocity
        /\ ms_onhits = 0
        /\ ms_sweeps = 1

C3_Witness ==
    /\ ms_pc = "done" /\ ms_firstmiss
    /\ ms_delta = TimeUnit
    /\ ms_start.velocity = <<100, 0, 0>>
    /\ ms_start.translation = ZERO
    /\ ms_translation = <<100, 0, 0>>

\* C4 as stated: with delta_time = 0, one or two calls in a row (with an
\* on_hit that modifies nothing) leave position and velocity unchanged.
C4_AsStated ==
    (ms_pc = "done" /\ ms_delta = 0 /\ ~ms_touched) =>
        /\ ~ms_tnan /\ ~ms_vnan
        /\ ms_translation = ms_start.translation0
        /\ ms_velocity = ms_start.velocity0

\* C4 (amended): with delta_time = 0, one or two calls in a row (with an
\* on_hit that modifies nothing) never change the position; the velocity is
\* unchanged when no sweep hit a surface (within skin_width of the agent).
C4_ZeroDelta ==
    (ms_delta = 0 /\ ~ms_touched) =>
        /\ ~ms_tnan
        /\ ms_translation = ms_start.translation0
        /\ ~ms_anyhit => (~ms_vnan /\ ms_velocity = ms_start.velocity0)

C4_Witness ==
    /\ ms_pc = "done" /\ ms_delta = 0 /\ ~ms_touched
    /\ ms_calls = 2
    /\ ms_anyhit
    /\ ms_start.velocity0 = <<60, 0, 80>>
    /\ ms_velocity = <<0, 0, 80>>
    /\ ms_translation = ms_start.translation0

\* C5: for a single hit normal n and a velocity v with dot(v, n) < 0 the
\* solver returns v - n * dot(v, n), which is orthogonal to n, whatever the
\* wish direction is.
C5_SingleNormalReject ==
    (so_pc = "done" /\ Len(so_hits) = 1 /\ Dot(so_velocity, so_hits[1]) < 0) =>
        /\ ~so_out.nan
        /\ Scale(so_out.v, LenSq(so_hits[1]))
             = Sub(Scale(so_velocity, LenSq(so_hits[1])), Scale(so_hits[1], Dot(so_velocity, so_hits[1])))
        /\ Dot(so_out.v, so_hits[1]) = 0

C5_Witness ==
    /\ so_pc = "done"
    /\ so_hits = << <<-3, 4, 0>> >>
    /\ so_velocity = <<100, -100, 0>>
    /\ so_dir = <<1, -1, 0>>
    /\ so_out = Vec(<<16, 12, 0>>)

WallsFacingAway == << <<5, 0, 0>>, <<0, 0, 5>> >>
WallsFacingMotion == { << <<-5, 0, 0>>, <<0, 0, -5>> >>,
                       << <<0, 0, -5>>, <<-5, 0, 0>> >> }

\* C6 as stated: with the hit normals (1,0,0) and (0,0,1) and the velocity
\* (1,0,1) the solver resolves to zero, up to the corner nudge of 0.01.
C6_AsStated ==
    (so_pc = "done" /\ so_hits = WallsFacingAway /\ so_velocity = <<100, 0, 100>>
        /\ so_dir = <<1, 0, 1>>) =>
        /\ ~so_out.nan
        /\ LenSq(so_out.v) * (NUDGE_DEN * NUDGE_DEN) <= LenUnit * LenUnit

\* C6 (amended): with the hit normals (-1,0,0) and (0,0,-1) of two
\* perpendicular walls that face the motion, in either order, and the
\* velocity (1,0,1), the solver resolves to exactly zero; with the normals
\* (1,0,0) and (0,0,1), which the velocity points away from, it returns the
\* velocity unchanged.
C6_CornerPinned ==
    (so_pc = "done" /\ so_velocity = <<100, 0, 100>>) =>
        /\ so_hits \in WallsFacingMotion => so_out = Vec(ZERO)
        /\ so_hits = WallsFacingAway => so_out = Vec(so_velocity)

C6_Witness ==
    /\ so_pc = "done"
    /\ so_velocity = <<100, 0, 100>>
    /\ so_dir = <<1, 0, 1>>
    /\ so_hits = << <<-5, 0, 0>>, <<0, 0, -5>> >>
    /\ so_out = Vec(ZERO)

\* the angle between n and up = (0,1,0), stated on its tangent |horizontal| / n.y:
\* below 45 degrees, exactly 45 degrees, and below 45 degrees - 1e-4 rad
\* (tan(PI/4 - 1e-4) = 9999 / 10001 to eleven places)
AngleBelow45(n) == n[2] > 0 /\ n[2] * n[2] > n[1] * n[1] + n[3] * n[3]
AngleExactly45(n) == n[2] > 0 /\ n[2] * n[2] = n[1] * n[1] + n[3] * n[3]
AngleBelowReduced(n) ==
    /\ n[2] > 0
    /\ IF n[3] = 0 THEN 10001 * Abs(n[1]) < 9999 * n[2]
       ELSE 10001 * 10001 * (n[1] * n[1] + n[3] * n[3]) < 9999 * 9999 * n[2] * n[2]

\* C7 as stated: n is walkable iff angle_between(n, up) < angle_limit; (0,1,0)
\* is walkable at 45 degrees; a normal exactly at 45 degrees is included under
\* the ordinary tolerance and excluded under the reduced step-climb tolerance.
C7_AsStated ==
    wk_pc = "done" =>
        /\ wk_use = "ground" => (wk_out.some <=> AngleBelow45(wk_normal))
        /\ (wk_use = "ground" /\ wk_normal = <<0, 5, 0>>) => wk_out.some
        /\ AngleExactly45(wk_normal) =>
              /\ wk_use = "ground" => wk_out.some
              /\ wk_use = "step" => ~wk_out.some

\* C7 (amended): n is walkable iff angle_between(n, up) < angle_limit, strictly;
\* (0,1,0) is walkable at 45 degrees; a normal exactly at 45 degrees is excluded
\* under both tolerances; a normal less than 1e-4 rad below 45 degrees is
\* included under the ordinary tolerance and excluded under the reduced one.
C7_Walkable ==
    wk_pc = "done" =>
        /\ wk_use = "ground" => (wk_out.some <=> AngleBelow45(wk_normal))
        /\ wk_use = "step" => (wk_out.some <=> AngleBelowReduced(wk_normal))
        /\ (wk_use = "ground" /\ wk_normal = <<0, 5, 0>>) => wk_out.some
        /\ AngleExactly45(wk_normal) => ~wk_out.some
        /\ wk_out.some => wk_out.normal = wk_normal

C7_Witness ==
    /\ wk_pc = "done"
    /\ wk_use = "step"
    /\ wk_normal = <<5000, 5001, 0>>
    /\ AngleBelow45(wk_normal)
    /\ ~wk_out.some

\* C8: launch(impulse) clears ground iff the character is grounded and
\* dot(ground.normal, impulse) > 0; an orthogonal or inward impulse leaves
\* ground unchanged; airborne, ground stays None; the velocity increases by
\* exactly impulse.
C8_LaunchClearsGround ==
    ch_last.op = "launch" =>
        /\ ch_velocity = Add(ch_last.velocity, ch_last.impulse)
        /\ ~ch_last.ground.some => ~ch_ground.some
        /\ ch_last.ground.some =>
              IF Dot(ch_last.ground.normal, ch_last.impulse) > 0
              THEN ~ch_ground.some
              ELSE ch_ground = ch_last.ground

C8_Witness ==
    /\ ch_last.op = "launch"
    /\ ch_last.ground.some
    /\ ch_last.ground.normal = <<0, 5, 0>>
    /\ ch_last.impulse = <<300, 0, 0>>
    /\ ch_ground = ch_last.ground

\* C9: after jump(impulse) the velocity component along up is impulse if it
\* was <= 0 before and the previous component plus impulse if it was
\* positive; the components orthogonal to up are unchanged.
C9_JumpOverridesDown ==
    ch_last.op \in {"jump", "jump_input"} =>
        /\ ch_velocity[1] = ch_last.velocity[1]
        /\ ch_velocity[3] = ch_last.velocity[3]
        /\ ch_velocity[2] = IF ch_last.velocity[2] <= 0
                            THEN ch_last.impulse
                            ELSE ch_last.velocity[2] + ch_last.impulse

C9_Witness ==
    /\ ch_last.op = "jump"
    /\ ch_last.velocity[2] < 0
    /\ ch_last.velocity[1] # 0
    /\ ch_velocity[2] = ch_last.impulse
    /\ ch_velocity[1] = ch_last.velocity[1]

\* C10: in every reachable state each Ground the character holds (ground,
\* previous_ground, and the tick's new_ground) has a normal that passes the
\* walkability test under up and WALKABLE_ANGLE.
C10_GroundIsWalkable ==
    \A g \in {ch_ground, ch_previous_ground, ch_new_ground} :
        g.some => is_walkable(g.normal, DirY, WALKABLE_ANGLE)

C10_Witness ==
    /\ ch_pc = "idle"
    /\ ch_last.op = "movement"
    /\ ch_sawwall
    /\ ch_ground.some
    /\ ch_ground.normal = <<-3, 4, 0>>
    /\ ~ch_last.ground.some

\* C11: when the on_hit callback reports a hit as handled (the step-up
\* succeeded), that iteration of move_and_slide does no plane clipping: the
\* hit normal is not appended to the accumulated normals and the velocity
\* the callback left is not passed through solve_collision_planes.
C11_HandledSkipsClipping ==
    ms_last.handled =>
        /\ ms_hits = ms_last.hits
        /\ ~ms_vnan
        /\ ms_velocity = ms_last.velocity

\* C16: move_and_slide called with a zero velocity returns at once, for every
\* delta_time: no sweep, no on_hit, position and velocity as they were.
C16_ZeroVelocityNoOp ==
    (ms_pc = "done" /\ ms_start.velocity = ZERO) =>
        /\ ms_sweeps = 0
        /\ ms_onhits = 0
        /\ ms_translation = ms_start.translation
        /\ ms_velocity = ZERO
        /\ ~ms_vnan /\ ~ms_tnan

C16_Witness ==
    /\ ms_pc = "done"
    /\ ms_start.velocity = ZERO
    /\ ms_delta = TimeUnit
    /\ ms_sweeps = 0

\* C18: once the velocity the solver returned has a dot product <= 0 with the
\* original (pre-loop) velocity direction, the loop is over: no sweep follows
\* and the position stays where the callback left it in that iteration.
C18_StopsWhenAgainstOriginal ==
    (/\ ms_last.kind \in {"slid", "against"}
     /\ ~ms_vnan
     /\ Dot(ms_velocity, ms_dir) <= 0) =>
        /\ ms_pc \in {"done", "call"}
        /\ ms_sweeps = ms_last.sweeps
        /\ ms_translation = ms_last.translation

C18_Witness ==
    /\ ms_last.kind = "against"
    /\ ms_iter > 0
    /\ ms_last.safe > ms_config.skin_width
    /\ ~ms_last.handled
    /\ ms_last.velocity # ZERO
    /\ ms_pc = "done"

\* C19: after a hit that is slid, the position has advanced along the sweep
\* direction by max(safe_distance - skin_width, 0) and remaining_time has been
\* multiplied by 1 - clamp(advance / max_distance, 0, 1) (by 1 when
\* max_distance is 0); remaining_time never increases and stays within
\* [0, delta_time].
C19_SlideAdvance ==
    /\ 0 <= ms_remaining /\ ms_remaining <= ms_delta
    /\ ms_last.kind = "slid" =>
          LET advance == Max(ms_last.safe - ms_config.skin_width, 0)
              max_distance == ms_last.max_distance
              ratio_num == Max(Min(advance, max_distance), 0)
          IN  /\ ms_remaining <= ms_last.remaining
              /\ ms_remaining =
                    IF max_distance = 0 THEN ms_last.remaining
                    ELSE RDiv(ms_last.remaining * (max_distance - ratio_num), max_distance)
              /\ ms_last.direction # ZERO
              /\ ms_translation =
                    Add(ms_last.translation,
                        VDiv(Scale(ms_last.direction, advance), Length(ms_last.direction)))

C19_Witness ==
    /\ ms_last.kind = "slid"
    /\ ms_last.safe > ms_config.skin_width
    /\ ms_last.max_distance > 0
    /\ 0 < ms_remaining /\ ms_remaining < ms_last.remaining
    /\ ms_iter > 1

\* C12: solve_collision_planes returns a finite vector for every velocity,
\* wish direction and list of unit hit normals, also when a candidate normal
\* is anti-parallel to the most recent one (the crease n_k x n_j is zero).
C12_FiniteResult ==
    so_pc = "done" => ~so_out.nan

\* C17: solve_collision_planes returns the velocity unchanged when the hit
\* list is empty, and when the velocity points away from (or along) the most
\* recent hit normal, whatever the other accumulated normals are.
C17_UnchangedWhenAway ==
    (/\ so_pc = "done"
     /\ \/ so_hits = <<>>
        \/ Dot(so_velocity, so_hits[Len(so_hits)]) >= 0) =>
        so_out = Vec(so_velocity)

C17_Witness ==
    /\ so_pc = "done"
    /\ Len(so_hits) >= 2
    /\ Dot(so_velocity, so_hits[Len(so_hits)]) >= 0
    /\ Dot(so_velocity, so_hits[1]) < 0
    /\ so_velocity # ZERO
    /\ so_out = Vec(so_velocity)

\* C13: a run of platform_movement that finds the character airborne with a
\* previous ground adds that ground's platform motion divided by delta_time
\* to the velocity, and any other run leaves the velocity alone; every run
\* ends with previous_ground = ground, so the velocity is inherited at most
\* once between two grounded runs.
C13_InheritOnce ==
    /\ ch_platform.inherits <= 1
    /\ ch_last.op = "platform" =>
          /\ ch_ground = ch_platform.ground
          /\ ch_previous_ground = ch_ground
          /\ ch_velocity =
                IF ~ch_platform.ground.some /\ ch_platform.previous.some
                THEN Add(ch_platform.velocity,
                         VDiv(Scale(platform_motion(ch_platform.previous.entity,
                                                    ch_platform.motion), TimeUnit),
                              TickDelta))
                ELSE ch_platform.velocity

C13_Witness ==
    /\ ch_last.op = "platform"
    /\ ~ch_platform.ground.some /\ ~ch_platform.previous.some
    /\ ch_platform.inherits = 1
    /\ ch_velocity[1] > 0
    /\ ch_velocity = ch_platform.velocity

\* C14: a run of platform_movement that finds the character grounded moves
\* it along the ground's platform motion by a sweep: along the motion's
\* direction, by the sweep's safe distance when the sweep hits and by the
\* motion's length otherwise, never further than the motion, and not at all
\* for a zero motion.
C14_FollowBySweep ==
    (ch_last.op = "platform" /\ ch_platform.ground.some) =>
        LET delta == platform_motion(ch_platform.ground.entity, ch_platform.motion)
            shift == ch_platform.shift
            dist == IF ch_platform.sweep.hit THEN ch_platform.sweep.safe
                    ELSE Length(delta)
        IN  /\ delta = ZERO => shift = ZERO
            /\ delta # ZERO => shift = VDiv(Scale(delta, dist), Length(delta))
            /\ Cross(shift, delta) = ZERO
            /\ Dot(shift, delta) >= 0
            /\ LenSq(shift) <= LenSq(delta)
            /\ ch_velocity = ch_platform.velocity

C14_Witness ==
    /\ ch_last.op = "platform"
    /\ ch_platform.ground.some
    /\ ch_platform.sweep.hit
    /\ 0 < ch_platform.sweep.safe
    /\ ch_platform.sweep.safe < Length(ch_platform.motion)
    /\ ch_platform.shift # ZERO

\* C15: at the end of a movement tick the ground probe runs only if the
\* character was grounded before the tick and the slide loop found no ground;
\* a walkable probe hit snaps the character down by the probe distance and
\* becomes the ground, a miss leaves it airborne; a ground the slide loop
\* found stops the probe from running and is kept.
C15_ProbeOnlyWithoutNewGround ==
    (ch_last.op = "movement" /\ ch_pc = "idle") =>
        /\ ch_probe.ran => (ch_last.ground.some /\ ~ch_probe.slide_ground.some)
        /\ (ch_probe.ran /\ ch_probe.found.some) =>
              /\ ch_ground = ch_probe.found
              /\ ch_probe.snap = <<0, -ch_probe.distance, 0>>
        /\ (ch_probe.ran /\ ~ch_probe.found.some) => ~ch_ground.some
        /\ ch_probe.slide_ground.some =>
              (~ch_probe.ran /\ ch_ground = ch_probe.slide_ground)

\* C20: try_step_up_on_hit is called only when the character is grounded at
\* the start of the tick or has found ground earlier in the tick, and only on
\* a hit that is not walkable.
C20_StepOnlyWhenGrounded ==
    /\ ~ch_step.ungrounded
    /\ ~ch_step.walkable

\* the fold of a solver input that gets past the early returns: the most
\* recent normal, the candidates, the closure's results in order, the
\* accumulator the j-th candidate meets and that accumulator rejected off it
SoFolds ==
    /\ so_pc = "done"
    /\ so_hits # <<>>
    /\ LenSq(so_velocity) > 0
    /\ Dot(so_velocity, so_hits[Len(so_hits)]) < 0
SoNk == so_hits[Len(so_hits)]
SoAllHits == <<so_dir>> \o so_hits
SoCand == filtered_hits(SoNk, so_dir, so_hits)
SoInitial == Vec(reject_from_normalized(so_velocity, SoNk))
SoPath == fold_path(SoInitial, SoCand, 1, SoNk, SoAllHits)
SoBefore(j) == IF j = 1 THEN SoInitial ELSE SoPath[j - 1].val
SoRejected(j) == reject_from_normalized(SoBefore(j).v, SoCand[j])
SoRealigned(j) == ~SoBefore(j).nan /\ similar_plane(SoRejected(j), SoNk)

SoCrease(j) == project_onto_crease(SoRejected(j), Cross(SoNk, SoCand[j]))
SoThirdAlong(j, i) ==
    /\ ~similar_plane(SoNk, SoAllHits[i])
    /\ ~similar_plane(SoCand[j], SoAllHits[i])
    /\ similar_plane(SoCrease(j).v, SoAllHits[i])
SoCorner(j) ==
    /\ ~SoBefore(j).nan
    /\ ~similar_plane(SoRejected(j), SoNk)
    /\ ~SoCrease(j).nan
    /\ \E i \in 1..Len(SoAllHits) : SoThirdAlong(j, i)

C28_NotIntoLatestPlane ==
    SoFolds =>
        /\ ~so_out.nan
        /\ 2 * Dot(so_out.v, SoNk) >= -(Abs(SoNk[1]) + Abs(SoNk[2]) + Abs(SoNk[3]))

\* C30: the recorder state changes only from Stopped to Recording on a
\* RecordDemo input, from Recording to Saving on a SaveDemo input and from
\* Saving to Stopped after save_demo ran; snapshots are appended only while
\* Recording; and whenever the state is Stopped the DemoHandler holds no
\* snapshots.
C30_RecorderCycle ==
    [][/\ rec_state' # rec_state =>
            <<rec_state, rec_state', rec_cause>> \in
                {<<"Stopped", "Recording", "record_input">>,
                 <<"Recording", "Saving", "save_input">>,
                 <<"Saving", "Stopped", "save_demo">>}
       /\ Len(rec_snapshots') > Len(rec_snapshots) => rec_state = "Recording"
       /\ rec_state' = "Stopped" => rec_snapshots' = <<>>]_vars

C30_Witness ==
    /\ rec_state = "Stopped"
    /\ rec_cause = "save_demo"
    /\ rec_next = "Unchanged"
    /\ rec_saved # <<>> /\ rec_saved[1] > 0
    /\ rec_snapshots = <<>>

\* C29: when on_hit modifies neither velocity nor position, every position
\* advance of a move_and_slide call is along a direction whose dot product
\* with the original velocity direction is positive, and the total
\* displacement of the call has no negative component along the original
\* velocity direction.
C29_AdvancesAlongOriginal ==
    (ms_pc \in {"loop", "done"} /\ ~ms_touched /\ ms_last.kind # "none") =>
        /\ ms_last.kind = "slid" => Dot(ms_last.direction, ms_dir) > 0
        /\ ms_last.kind = "miss" => ~ms_vnan /\ Dot(ms_velocity, ms_dir) > 0
        /\ ~ms_tnan
        /\ Dot(Sub(ms_translation, ms_start.translation), ms_dir) >= 0

C29_Witness ==
    /\ ms_pc = "done" /\ ~ms_touched
    /\ ms_last.kind = "miss"
    /\ Len(ms_hits) >= 2
    /\ ms_velocity # ms_start.velocity
    /\ ms_remaining > 0
    /\ Dot(Sub(ms_translation, ms_start.translation), ms_dir) > 0

\* C21: a step-up attempt succeeds only if the climb found a resting surface
\* that is walkable under the reduced tolerance walkable_angle - 1e-4; an
\* attempt that fails sets no ground, overrides neither the position nor the
\* remaining time, and leaves the hit to be slid along.
C21_StepOnlyAtReducedTolerance ==
    (st_pc = "done" /\ st_out.attempted) =>
        IF st_out.stepped
        THEN /\ st_in.climb.hit
             /\ is_walkable(st_in.climb.normal, DirY, step_walkable_angle)
        ELSE /\ st_out.new_ground = st_in.in.new_ground
             /\ st_out.translation = st_in.in.translation
             /\ st_out.remaining_time = st_in.in.remaining_time
             /\ st_out.slide

\* C21, for the closure of plugin.rs alone
C21_PluginStepOnlyAtReducedTolerance ==
    st_out.closure = "plugin" => C21_StepOnlyAtReducedTolerance

\* C25: after a successful step-up in the slide-loop callback the working
\* velocity has no upward component.
C25_NotUpwardAfterStep ==
    (st_pc = "done" /\ st_out.closure = "movement" /\ st_out.stepped) =>
        Dot(st_out.velocity, DirY) <= 0

\* C22: on a successful step-up inside the slide loop the position of the
\* loop is the settled step translation and the loop's remaining_time is
\* max(remaining_time - move_time, 0), where move_time is (reduced forward
\* distance + inward correction) * delta_time and the reduced forward
\* distance is max(remaining motion - inward, 0); so remaining_time is never
\* negative and never grows through the step-up.
C22_StepUpSetsRemainingTime ==
    (ms_pc \in {"loop", "done"} /\ ms_last.handled) =>
        LET inward == step_inward(ms_config.epsilon)
            remaining_motion ==
                Max(ms_last.max_distance - slide_movement(ms_last.safe, ms_config), 0)
            move_time == step_move_time(step_forward(remaining_motion, inward),
                                        inward, ms_delta)
        IN  /\ ms_translation = ms_last.translation
            /\ ms_remaining =
                  step_remaining_time(ms_last.remaining, RDiv(move_time, LenUnit))
            /\ ms_remaining >= 0
            /\ ms_remaining <= ms_last.remaining

\* C26: a Jump input is applied only while the character is grounded, and it
\* leaves the character not grounded; the ground of a character that is not
\* grounded is set only at the end of a movement tick, so between two
\* applied Jump inputs a movement tick has re-established the ground.
C26_NoDoubleJump ==
    [][/\ (ch_ops' # ch_ops /\ ch_last'.op = "jump_input") =>
              (ch_ground.some /\ ~ch_ground'.some)
       /\ (~ch_ground.some /\ ch_ground'.some) =>
              (ch_pc = "slide" /\ ch_pc' = "idle" /\ ch_last.op = "movement")]_vars

C26_Witness ==
    /\ ch_last.op = "jump_input"
    /\ ch_last.ground.some /\ ch_last.ground.normal # <<0, 5, 0>>
    /\ ~ch_ground.some
    /\ Dot(ch_velocity, DirY) > 0

=============================================================================
